---- MODULE Spec2Model ----
(***************************************************************************)
(* Model of cppfront's diagnostics aggregation (source/diagnostics.h):    *)
(* make_scope_map, sanitize_for_json, get_diagnostics, print_diagnostics. *)
(*                                                                         *)
(* Three specifications share the module:                                  *)
(*   Spec      the loop of make_scope_map over sema.symbols, one action    *)
(*             per switch case and loop iteration;                         *)
(*   SpecDiag  get_diagnostics followed by print_diagnostics on an         *)
(*             analyzer snapshot drawn in DiagInit;                        *)
(*   SpecJson  sanitize_for_json on a message drawn in JsonInit.           *)
(***************************************************************************)
EXTENDS Integers, Sequences, FiniteSets, TLC

VARIABLES
    layout,       \* how the source lays out brace positions (input)
    symbols,      \* the pushing declarations and scope markers of sema.symbols
                  \* consumed so far, in stream order
    consumed,     \* number of elements of sema.symbols consumed so far
    current,      \* make_scope_map: the scope-name stack
    result,       \* make_scope_map: the scope map under construction
    pc,           \* make_scope_map: "loop", "returned", "crashed", "undefined"
    sema,         \* the analyzer snapshot handed to get_diagnostics
    diagnostics,  \* the diagnostics_t get_diagnostics returned
    o,            \* what print_diagnostics wrote to the ostream
    dpc,          \* "idle", "start", "got", "printed", "undefined", and
                  \* "first_..."/"second_..." after each of two calls
    message,      \* the string handed to sanitize_for_json
    sanitized,    \* the string sanitize_for_json returned
    jpc           \* "idle", "start", "done"

scope_vars == <<layout, symbols, consumed, current, result, pc>>

diag_vars == <<sema, diagnostics, o, dpc>>

json_vars == <<message, sanitized, jpc>>

vars == <<scope_vars, diag_vars, json_vars>>

----------------------------------------------------------------------------
(* Bounds *)

MaxSymbols == 7

(* Inputs *)

Names == {"x", "f"}

Null == "nullptr"

Garbage == "<garbage>"

Layouts == {"increasing", "constant", "decreasing"}

----------------------------------------------------------------------------
(* cpp2::source_position: (lineno, colno), compared lineno first. *)

Position(l, c) == [lineno |-> l, colno |-> c]

DefaultPosition == Position(1, 1)

PosLess(p, q) ==
    \/ p.lineno < q.lineno
    \/ p.lineno = q.lineno /\ p.colno < q.colno

PosLeq(p, q) == p = q \/ PosLess(p, q)

(* The k-th brace position of a source text that grows line by line:      *)
(* (1,2), (2,1), (2,2), (3,1), ... : the column may go down when the line *)
(* goes up.                                                                *)
SourceOrder(k) == Position(1 + (k \div 2), 1 + (k % 2))

(* The position carried by the k-th scope marker of the stream. *)
MarkerPosition(lay, k) ==
    CASE lay = "increasing" -> SourceOrder(k)
      [] lay = "constant"   -> SourceOrder(1)
      [] OTHER              -> SourceOrder(MaxSymbols + 1 - k)

----------------------------------------------------------------------------
(* sema.symbols: the elements make_scope_map distinguishes. *)

DeclarationSyms ==
    [type : {"declaration"},
     is_function : BOOLEAN, is_namespace : BOOLEAN,
     identifier : Names \cup {Null}]

CompoundSyms(pos) ==
    [type : {"compound"}, kind_ : {"is_scope", "is_true", "is_false"},
     start : BOOLEAN, pos : {pos}]

OtherSyms == [type : {"identifier", "selection"}]

IsPush(s) ==
    /\ s.type = "declaration"
    /\ s.is_function \/ s.is_namespace
    /\ s.identifier # Null

IsMarker(s) == s.type = "compound" /\ s.kind_ = "is_scope"

IsOpen(s) == IsMarker(s) /\ s.start

IsClose(s) == IsMarker(s) /\ ~s.start

Last(q) == q[Len(q)]

Front(q) == SubSeq(q, 1, Len(q) - 1)

NumMarkers(q) == Cardinality({i \in 1..Len(q) : IsMarker(q[i])})

(* What is kept of a consumed element: a pushing declaration as its name, *)
(* a scope marker as it is; the loop ignores every other element.         *)
Record(q, s) ==
    IF IsPush(s)
    THEN Append(q, [type |-> "declaration", is_function |-> TRUE,
                    is_namespace |-> FALSE, identifier |-> s.identifier])
    ELSE IF IsMarker(s) THEN Append(q, s) ELSE q

----------------------------------------------------------------------------
(* make_scope_map: the body of the loop, one operator per switch case.    *)
(* Each takes the locals [current, result, pc] and one element, and gives *)
(* the set of outcomes the build can produce.                              *)

Locals(cur, res, p) == [current |-> cur, result |-> res, pc |-> p]

EmptyMap == [n \in {} |-> DefaultPosition]

(* result[name] = v of a std::unordered_map *)
MapSet(m, name, v) ==
    [n \in DOMAIN m \cup {name} |-> IF n = name THEN v ELSE m[n]]

(* result[name] of a std::unordered_map: a missing key is value-initialized *)
MapGet(m, name) ==
    IF name \in DOMAIN m
    THEN m[name]
    ELSE [start |-> DefaultPosition, end |-> DefaultPosition]

declaration_case_any_kind(st, s) ==
    IF s.identifier = Null
    THEN {st}
    ELSE {[st EXCEPT !.current = Append(st.current, s.identifier)]}

declaration_case(st, s) ==
    IF s.is_function \/ s.is_namespace
    THEN IF s.identifier = Null
         THEN {st}
         ELSE {[st EXCEPT !.current = Append(st.current, s.identifier)]}
    ELSE {st}

open_brace(st, name, pos) ==
    [st EXCEPT !.result = MapSet(st.result, name, [start |-> pos, end |-> pos])]

close_brace_if_present(st, name, pos) ==
    IF name \in DOMAIN st.result
    THEN [st EXCEPT !.result[name].end = pos]
    ELSE st

close_brace_sets_start(st, name, pos) ==
    [st EXCEPT !.result = MapSet(st.result, name,
                                 [MapGet(st.result, name) EXCEPT !.start = pos])]

close_brace(st, name, pos) ==
    [st EXCEPT !.result = MapSet(st.result, name,
                                 [MapGet(st.result, name) EXCEPT !.end = pos])]

pop_back(st) == [st EXCEPT !.current = Front(st.current)]

(* current.back() and current.pop_back() on an empty vector are undefined: *)
(* the build may stop the process, or read some string as the name and go  *)
(* on with it.                                                             *)
compound_case(st, s) ==
    IF s.kind_ = "is_scope"
    THEN IF st.current = <<>>
         THEN {[st EXCEPT !.pc = "crashed"]}
              \cup { [(IF s.start THEN open_brace(st, g, s.pos)
                                  ELSE close_brace(st, g, s.pos))
                      EXCEPT !.pc = "undefined"] : g \in Names \cup {Garbage} }
         ELSE IF s.start
              THEN {open_brace(st, Last(st.current), s.pos)}
              ELSE {pop_back(close_brace(st, Last(st.current), s.pos))}
    ELSE {st}

default_case(st, s) == {st}

----------------------------------------------------------------------------
(* Spec: make_scope_map run over a stream the analyzer hands over. *)

ScopeIdle ==
    /\ layout = "increasing"
    /\ symbols = <<>>
    /\ consumed = 0
    /\ current = <<>>
    /\ result = EmptyMap
    /\ pc = "idle"

DiagIdle ==
    /\ sema = [symbols |-> <<>>, declaration_of |-> <<>>, errors |-> <<>>]
    /\ diagnostics = [symbols |-> <<>>, errors |-> <<>>, scope_map |-> EmptyMap]
    /\ o = <<>>
    /\ dpc = "idle"

JsonIdle ==
    /\ message = <<>>
    /\ sanitized = <<>>
    /\ jpc = "idle"

Init ==
    /\ layout \in Layouts
    /\ symbols = <<>>
    /\ consumed = 0
    /\ current = <<>>
    /\ result = EmptyMap
    /\ pc = "loop"
    /\ DiagIdle
    /\ JsonIdle

Step(s, outcomes) ==
    /\ pc = "loop"
    /\ consumed < MaxSymbols
    /\ consumed' = consumed + 1
    /\ symbols' = Record(symbols, s)
    /\ \E st \in outcomes :
          /\ current' = st.current
          /\ result' = st.result
          /\ pc' = st.pc
    /\ UNCHANGED <<layout, diag_vars, json_vars>>

DeclarationCase ==
    \E s \in DeclarationSyms :
        Step(s, declaration_case(Locals(current, result, pc), s))

CompoundCase ==
    \E s \in CompoundSyms(MarkerPosition(layout, NumMarkers(symbols) + 1)) :
        Step(s, compound_case(Locals(current, result, pc), s))

DefaultCase ==
    \E s \in OtherSyms :
        Step(s, default_case(Locals(current, result, pc), s))

Return ==
    /\ pc = "loop"
    /\ pc' = "returned"
    /\ UNCHANGED <<layout, symbols, consumed, current, result>>
    /\ UNCHANGED <<diag_vars, json_vars>>

Next == DeclarationCase \/ CompoundCase \/ DefaultCase \/ Return

Spec == Init /\ [][Next]_vars

TypeOK ==
    /\ pc \in {"idle", "loop", "returned", "crashed", "undefined"}
    /\ consumed \in 0..MaxSymbols
    /\ Len(symbols) <= consumed
    /\ dpc \in {"idle", "start", "got", "printed", "undefined",
               "first_returned", "first_undefined", "first_crashed",
               "second_returned", "second_undefined", "second_crashed"}
    /\ jpc \in {"idle", "start", "done"}

----------------------------------------------------------------------------
(* sanitize_for_json.  A std::string is a sequence of characters; the     *)
(* seven characters the function escapes are named, every other character *)
(* stands for itself.                                                      *)

Backslash == "BACKSLASH"

DoubleQuote == "DQUOTE"

Backspace == "BS"

Formfeed == "FF"

Newline == "LF"

CarriageReturn == "CR"

Tab == "HT"

Chars ==
    {Backslash, DoubleQuote, Backspace, Formfeed, Newline, CarriageReturn,
     Tab, "a", "b"}

MaxMsgLen == 3

Strings(n) == UNION {[1..k -> Chars] : k \in 0..n}

(* std::string::find(what, pos): the first index >= pos where what occurs, *)
(* 0 for npos                                                              *)
find(str, what, pos) ==
    LET At == {i \in pos..(Len(str) - Len(what) + 1) :
                  SubSeq(str, i, i + Len(what) - 1) = what}
    IN  IF At = {} THEN 0 ELSE CHOOSE i \in At : \A j \in At : i <= j

(* cpp2::replace_all: every occurrence found from the left is replaced,   *)
(* and the search goes on after the replacement.                           *)
RECURSIVE replace_from(_, _, _, _)
replace_from(str, pos, what, with) ==
    LET i == find(str, what, pos)
    IN  IF i = 0 THEN str
        ELSE replace_from(SubSeq(str, 1, i - 1) \o with
                            \o SubSeq(str, i + Len(what), Len(str)),
                          i + Len(with), what, with)

replace_all(str, what, with) == replace_from(str, 1, what, with)

sanitize_backslash_last(s) ==
    LET r1 == replace_all(s, <<DoubleQuote>>, <<Backslash, DoubleQuote>>)
        r2 == replace_all(r1, <<Backspace>>, <<Backslash, "b">>)
        r3 == replace_all(r2, <<Formfeed>>, <<Backslash, "f">>)
        r4 == replace_all(r3, <<Newline>>, <<Backslash, "n">>)
        r5 == replace_all(r4, <<CarriageReturn>>, <<Backslash, "r">>)
        r6 == replace_all(r5, <<Tab>>, <<Backslash, "t">>)
    IN  replace_all(r6, <<Backslash>>, <<Backslash, Backslash>>)

sanitize_for_json(s) ==
    LET r1 == replace_all(s, <<Backslash>>, <<Backslash, Backslash>>)
        r2 == replace_all(r1, <<DoubleQuote>>, <<Backslash, DoubleQuote>>)
        r3 == replace_all(r2, <<Backspace>>, <<Backslash, "b">>)
        r4 == replace_all(r3, <<Formfeed>>, <<Backslash, "f">>)
        r5 == replace_all(r4, <<Newline>>, <<Backslash, "n">>)
        r6 == replace_all(r5, <<CarriageReturn>>, <<Backslash, "r">>)
    IN  replace_all(r6, <<Tab>>, <<Backslash, "t">>)

(* SpecJson: sanitize_for_json applied to a message. *)

JsonInit ==
    /\ message \in Strings(MaxMsgLen)
    /\ sanitized = <<>>
    /\ jpc = "start"
    /\ ScopeIdle
    /\ DiagIdle

Sanitize ==
    /\ jpc = "start"
    /\ sanitized' = sanitize_for_json(message)
    /\ jpc' = "done"
    /\ UNCHANGED <<message, scope_vars, diag_vars>>

JsonNext == Sanitize

SpecJson == JsonInit /\ [][JsonNext]_vars

----------------------------------------------------------------------------
(* make_scope_map as a whole: the loop over sema.symbols, then the return. *)

loop_body(st, s) ==
    CASE s.type = "declaration" -> declaration_case(st, s)
      [] s.type = "compound"    -> compound_case(st, s)
      [] OTHER                  -> default_case(st, s)

RECURSIVE loop(_, _, _)
loop(st, q, i) ==
    IF st.pc # "loop" THEN {st}
    ELSE IF i > Len(q) THEN {[st EXCEPT !.pc = "returned"]}
    ELSE UNION {loop(nx, q, i + 1) : nx \in loop_body(st, q[i])}

make_scope_map(s) == loop(Locals(<<>>, EmptyMap, "loop"), s.symbols, 1)

----------------------------------------------------------------------------
(* diagnostic_symbol_t and std::set<diagnostic_symbol_t> *)

(* std::string's order on the strings the model uses *)
StrRank(str) ==
    CASE str = ""          -> 0
      [] str = "f"         -> 1
      [] str = "function"  -> 2
      [] str = "namespace" -> 3
      [] str = "type"      -> 4
      [] str = "unknown"   -> 5
      [] str = "var"       -> 6
      [] str = "x"         -> 7

StrLess(a, b) == StrRank(a) < StrRank(b)

symbol_less_name_position(a, b) ==
    \/ StrLess(a.symbol, b.symbol)
    \/ a.symbol = b.symbol /\ PosLess(a.position, b.position)

(* the defaulted operator<=>: symbol, kind, scope, position, in that order *)
symbol_less(a, b) ==
    \/ StrLess(a.symbol, b.symbol)
    \/ /\ a.symbol = b.symbol
       /\ \/ StrLess(a.kind, b.kind)
          \/ /\ a.kind = b.kind
             /\ \/ StrLess(a.scope, b.scope)
                \/ a.scope = b.scope /\ PosLess(a.position, b.position)

(* std::set::emplace: the set is the sorted sequence of its elements; an  *)
(* element equivalent to one in the set is not inserted                    *)
emplace(set, v) ==
    IF \E i \in 1..Len(set) : ~symbol_less(set[i], v) /\ ~symbol_less(v, set[i])
    THEN set
    ELSE LET k == Cardinality({i \in 1..Len(set) : symbol_less(set[i], v)})
         IN  SubSeq(set, 1, k) \o <<v>> \o SubSeq(set, k + 1, Len(set))

get_declaration_kind(decl) ==
    IF decl.kind = "function" THEN "function"
    ELSE IF decl.kind = "object" THEN "var"
    ELSE IF decl.kind = "type" THEN "type"
    ELSE IF decl.kind = "namespace" THEN "namespace"
    ELSE "unknown"

(* decl.is_null stands for decl == nullptr *)
get_decl_name(decl) ==
    IF decl.is_null \/ decl.identifier = Null THEN ""
    ELSE decl.identifier

read_symbol(sym) ==
    [symbol   |-> sym.identifier,
     kind     |-> get_declaration_kind(sym.declaration),
     scope    |-> get_decl_name(sym.declaration.parent),
     position |-> sym.declaration.position]

RECURSIVE collect_symbols(_, _)
collect_symbols(set, decls) ==
    IF decls = <<>> THEN set
    ELSE collect_symbols(emplace(set, read_symbol(Head(decls))), Tail(decls))

errors_without_symbol(s) ==
    [i \in 1..Len(s.errors) |-> [s.errors[i] EXCEPT !.symbol = ""]]

(* the errors member of the returned diagnostics_t *)
copy_errors(s) == s.errors

(* get_diagnostics: the reports the call can return; none when the call   *)
(* to make_scope_map does not return                                      *)
get_diagnostics(s) ==
    {[symbols   |-> collect_symbols(<<>>, s.declaration_of),
      errors    |-> copy_errors(s),
      scope_map |-> r.result] :
        r \in {st \in make_scope_map(s) : st.pc = "returned"}}

----------------------------------------------------------------------------
(* print_diagnostics: the ostream receives a sequence of pieces, the three *)
(* section openers, one piece per record, and the closing braces.          *)

Piece(text) == [piece |-> text]

print_symbols(d) ==
    [i \in 1..Len(d.symbols) |->
        [piece  |-> "symbol",
         symbol |-> d.symbols[i].symbol,
         scope  |-> d.symbols[i].scope,
         kind   |-> d.symbols[i].kind,
         lineno |-> d.symbols[i].position.lineno,
         colno  |-> d.symbols[i].position.colno]]

print_errors_unless_no_symbols(d) ==
    IF d.symbols = <<>> THEN <<>>
    ELSE [i \in 1..Len(d.errors) |->
            [piece  |-> "error",
             symbol |-> d.errors[i].symbol,
             lineno |-> d.errors[i].where.lineno,
             colno  |-> d.errors[i].where.colno,
             msg    |-> sanitize_for_json(d.errors[i].msg)]]

print_errors(d) ==
    [i \in 1..Len(d.errors) |->
        [piece  |-> "error",
         symbol |-> d.errors[i].symbol,
         lineno |-> d.errors[i].where.lineno,
         colno  |-> d.errors[i].where.colno,
         msg    |-> sanitize_for_json(d.errors[i].msg)]]

(* the keys of a std::unordered_map come in an order the library chooses *)
Orders(S) ==
    {q \in [1..Cardinality(S) -> S] : \A i, j \in DOMAIN q : q[i] = q[j] => i = j}

print_scopes(d, keys) ==
    [i \in 1..Len(keys) |->
        [piece |-> "scope",
         name  |-> keys[i],
         start |-> d.scope_map[keys[i]].start,
         end   |-> d.scope_map[keys[i]].end]]

print_diagnostics(d) ==
    {<<Piece("{\"symbols\": [")>> \o print_symbols(d)
       \o <<Piece("], \"errors\": [")>> \o print_errors(d)
       \o <<Piece("], \"scopes\": {")>> \o print_scopes(d, keys)
       \o <<Piece("}}")>> :
        keys \in Orders(DOMAIN d.scope_map)}

----------------------------------------------------------------------------
(* SpecDiag: get_diagnostics, then print_diagnostics, on a snapshot. *)

MaxDecls == 3

MaxErrors == 2

Declaration(k, parent, pos) == [kind |-> k, parent |-> parent, position |-> pos]

Parent(id) == [is_null |-> FALSE, identifier |-> id]

NoParent == [is_null |-> TRUE, identifier |-> Null]

SampleDeclarations ==
    {[identifier |-> "x", declaration |-> Declaration("function", NoParent, SourceOrder(1))],
     [identifier |-> "x", declaration |-> Declaration("object", NoParent, SourceOrder(1))],
     [identifier |-> "x", declaration |-> Declaration("function", Parent("f"), SourceOrder(1))],
     [identifier |-> "x", declaration |-> Declaration("function", Parent(Null), SourceOrder(1))],
     [identifier |-> "x", declaration |-> Declaration("function", NoParent, SourceOrder(2))],
     [identifier |-> "f", declaration |-> Declaration("namespace", NoParent, SourceOrder(1))],
     [identifier |-> "f", declaration |-> Declaration("type", Parent("f"), SourceOrder(2))],
     [identifier |-> "f", declaration |-> Declaration("alias", NoParent, SourceOrder(2))]}

SampleErrors ==
    {[symbol |-> "", msg |-> <<"a">>, where |-> SourceOrder(1)],
     [symbol |-> "f", msg |-> <<"a", DoubleQuote, "b">>, where |-> SourceOrder(2)],
     [symbol |-> "f", msg |-> <<"a">>, where |-> SourceOrder(1)]}

Decl(owner, id) ==
    [type |-> "declaration", is_function |-> owner, is_namespace |-> FALSE,
     identifier |-> id]

Brace(open, k) ==
    [type |-> "compound", kind_ |-> "is_scope", start |-> open,
     pos |-> SourceOrder(k)]

(* no element; x { f { } }; and x { { } }, whose last marker finds the     *)
(* stack empty                                                             *)
SampleStreams ==
    {<<>>,
     <<Decl(TRUE, "x"), Brace(TRUE, 1), Decl(FALSE, "f"), Decl(TRUE, "f"),
       Brace(TRUE, 2), Brace(FALSE, 3), Decl(TRUE, Null), Brace(FALSE, 4)>>,
     <<Decl(TRUE, "x"), Brace(TRUE, 1), Brace(TRUE, 2), Brace(FALSE, 3),
       Brace(FALSE, 4)>>}

SeqsUpTo(S, n) == UNION {[1..k -> S] : k \in 0..n}

DiagInit ==
    /\ sema \in [symbols : SampleStreams,
                 declaration_of : SeqsUpTo(SampleDeclarations, MaxDecls),
                 errors : SeqsUpTo(SampleErrors, MaxErrors)]
    /\ diagnostics = [symbols |-> <<>>, errors |-> <<>>, scope_map |-> EmptyMap]
    /\ o = <<>>
    /\ dpc = "start"
    /\ ScopeIdle
    /\ JsonIdle

GetDiagnostics ==
    /\ dpc = "start"
    /\ \/ /\ \E d \in get_diagnostics(sema) : diagnostics' = d
          /\ dpc' = "got"
       \/ /\ \E st \in make_scope_map(sema) : st.pc # "returned"
          /\ dpc' = "undefined"
          /\ UNCHANGED diagnostics
    /\ UNCHANGED <<sema, o, scope_vars, json_vars>>

PrintDiagnostics ==
    /\ dpc = "got"
    /\ \E doc \in print_diagnostics(diagnostics) : o' = doc
    /\ dpc' = "printed"
    /\ UNCHANGED <<sema, diagnostics, scope_vars, json_vars>>

DiagNext == GetDiagnostics \/ PrintDiagnostics

SpecDiag == DiagInit /\ [][DiagNext]_vars

(* SpecTwice: get_diagnostics called twice in a row on the same snapshot.  *)
(* Every end of the loop of make_scope_map is kept apart: a call returns   *)
(* its report, or the process stops at the read of the top of an empty     *)
(* stack, or the call goes on with whatever name that read produced.       *)

get_diagnostics_outcomes(s) ==
    {[pc     |-> st.pc,
      report |-> [symbols   |-> collect_symbols(<<>>, s.declaration_of),
                  errors    |-> copy_errors(s),
                  scope_map |-> st.result]] : st \in make_scope_map(s)}

AfterCall(call, p) ==
    CASE call = 1 /\ p = "returned"  -> "first_returned"
      [] call = 1 /\ p = "undefined" -> "first_undefined"
      [] call = 1 /\ p = "crashed"   -> "first_crashed"
      [] call = 2 /\ p = "returned"  -> "second_returned"
      [] call = 2 /\ p = "undefined" -> "second_undefined"
      [] call = 2 /\ p = "crashed"   -> "second_crashed"

Call(call) ==
    /\ \E out \in get_diagnostics_outcomes(sema) :
          /\ dpc' = AfterCall(call, out.pc)
          /\ diagnostics' = IF out.pc = "crashed" THEN diagnostics
                                                  ELSE out.report
    /\ UNCHANGED <<sema, o, scope_vars, json_vars>>

FirstCall == dpc = "start" /\ Call(1)

SecondCall == dpc \in {"first_returned", "first_undefined"} /\ Call(2)

TwiceNext == FirstCall \/ SecondCall

SpecTwice == DiagInit /\ [][TwiceNext]_vars

----------------------------------------------------------------------------
(* Properties of a stream, read off the stream alone. *)

PushIndices(q) == {i \in 1..Len(q) : IsPush(q[i])}

OpenIndices(q) == {i \in 1..Len(q) : IsOpen(q[i])}

CloseIndices(q) == {i \in 1..Len(q) : IsClose(q[i])}

MarkerIndices(q) == OpenIndices(q) \cup CloseIndices(q)

PushedNames(q) == {q[i].identifier : i \in PushIndices(q)}

(* opening minus closing markers among q[i..j] *)
Depth(q, i, j) ==
    Cardinality({k \in i..j : IsOpen(q[k])})
      - Cardinality({k \in i..j : IsClose(q[k])})

(* the closing marker that matches the opening marker q[i]; 0 when none *)
MatchClose(q, i) ==
    LET C == {j \in (i+1)..Len(q) : IsClose(q[j]) /\ Depth(q, i, j) = 0}
    IN  IF C = {} THEN 0 ELSE CHOOSE j \in C : \A k \in C : j <= k

AllOpensClosed(q) == \A i \in OpenIndices(q) : MatchClose(q, i) # 0

ProperlyNested(q) ==
    /\ \A k \in 1..Len(q) : Depth(q, 1, k) >= 0
    /\ Depth(q, 1, Len(q)) = 0

PositionsIncrease(q) ==
    \A i, j \in MarkerIndices(q) : i < j => PosLess(q[i].pos, q[j].pos)

PositionsNonDecreasing(q) ==
    \A i, j \in MarkerIndices(q) : i < j => PosLeq(q[i].pos, q[j].pos)

(* the pushing declarations immediately followed by an opening marker that *)
(* is closed later: the declarations with a body of their own              *)
ScopeIndices(q) ==
    {i \in PushIndices(q) :
        i < Len(q) /\ IsOpen(q[i+1]) /\ MatchClose(q, i+1) # 0}

OwnRange(q, i) ==
    [start |-> q[i+1].pos, end |-> q[MatchClose(q, i+1)].pos]

(* the stack of names section 4.2 of the design prescribes after q[1..k] *)
RECURSIVE StackAfter(_, _)
StackAfter(q, k) ==
    IF k = 0 THEN <<>>
    ELSE LET st == StackAfter(q, k - 1)
         IN  IF IsPush(q[k]) THEN Append(st, q[k].identifier)
             ELSE IF IsClose(q[k]) /\ st # <<>> THEN Front(st)
             ELSE st

(* a scope marker arrives while the stack of names is empty *)
Underflows(q) == \E i \in MarkerIndices(q) : StackAfter(q, i - 1) = <<>>

(* the names that were the top of the stack at an opening marker *)
OpenedNames(q) ==
    {Last(StackAfter(q, i - 1)) :
        i \in {j \in OpenIndices(q) : StackAfter(q, j - 1) # <<>>}}

Finished == pc # "loop"

Balanced == pc = "returned" /\ current = <<>> /\ AllOpensClosed(symbols)

----------------------------------------------------------------------------
(* C1: for a stream in which every pushing declaration is immediately      *)
(* followed by its own opening marker, the markers are properly nested,    *)
(* the pushed names are distinct and the marker positions increase,        *)
(* make_scope_map returns a map that gives each pushed name the range from *)
(* its own opening marker to the matching closing marker, and the range of *)
(* a scope opened inside another scope lies within the outer range.        *)
C1_Stream(q) ==
    /\ \A i \in PushIndices(q) : i < Len(q) /\ IsOpen(q[i+1])
    /\ ProperlyNested(q)
    /\ \A i, j \in PushIndices(q) : q[i].identifier = q[j].identifier => i = j
    /\ PositionsIncrease(q)

C1_OwnRanges ==
    (Finished /\ C1_Stream(symbols)) =>
        /\ pc = "returned"
        /\ \A i \in PushIndices(symbols) :
              /\ symbols[i].identifier \in DOMAIN result
              /\ result[symbols[i].identifier] = OwnRange(symbols, i)
        /\ \A i, j \in PushIndices(symbols) :
              (i < j /\ j < MatchClose(symbols, i + 1)) =>
                  /\ PosLeq(result[symbols[i].identifier].start,
                            result[symbols[j].identifier].start)
                  /\ PosLeq(result[symbols[j].identifier].end,
                            result[symbols[i].identifier].end)

(* C2: after a balanced stream the keys of the map are exactly the pushed *)
(* names.                                                                  *)
C2_KeysArePushedNames ==
    Balanced => DOMAIN result = PushedNames(symbols)

C2_Witness ==
    /\ Balanced
    /\ ProperlyNested(symbols)
    /\ Cardinality(OpenIndices(symbols)) >= 2
    /\ Cardinality(PushIndices(symbols)) >= 2
    /\ DOMAIN result = Names

(* C3: after a balanced stream whose marker positions never decrease,     *)
(* every entry of the map ends at or after its start, line first and then *)
(* column.                                                                 *)
C3_EndNotBeforeStart ==
    (Balanced /\ PositionsNonDecreasing(symbols)) =>
        \A n \in DOMAIN result : PosLeq(result[n].start, result[n].end)

C3_Witness ==
    /\ Balanced
    /\ PositionsNonDecreasing(symbols)
    /\ \E n \in DOMAIN result :
          /\ result[n].start.lineno < result[n].end.lineno
          /\ result[n].start.colno > result[n].end.colno

(* C4: when the properly nested stream holds two or more sibling scopes   *)
(* pushed under one name, each with its own opening and closing marker,   *)
(* make_scope_map returns, and the entry of that name is the range of the *)
(* last of them.                                                           *)
C4_Siblings(q, n) ==
    LET S == {i \in ScopeIndices(q) : q[i].identifier = n}
    IN  /\ Cardinality(S) >= 2
        /\ \A i, j \in S : i < j => MatchClose(q, i + 1) < j

C4_LastSiblingWins ==
    (Finished /\ ProperlyNested(symbols)) =>
        \A n \in Names :
            C4_Siblings(symbols, n) =>
                /\ pc = "returned"
                /\ n \in DOMAIN result
                /\ LET S == {i \in ScopeIndices(symbols) :
                                symbols[i].identifier = n}
                       l == CHOOSE i \in S : \A j \in S : j <= i
                   IN  result[n] = OwnRange(symbols, l)

(* C5: after a stream without stack underflow, every key of the map is a  *)
(* pushed name that was the top of the stack at some opening marker: no   *)
(* entry exists for a declaration that never had an opening marker.  It   *)
(* is stated for the streams whose markers are properly nested.           *)
C5_KeysOwnABody ==
    (pc = "returned" /\ ProperlyNested(symbols)) =>
        DOMAIN result \subseteq
            (PushedNames(symbols) \cap OpenedNames(symbols))

(* C6: a scope marker that arrives while the stack is empty makes         *)
(* make_scope_map signal an explicit failure, with the map and the stack  *)
(* left as they were; the top of an empty stack is never read.            *)
C6_ExplicitFailure ==
    [][ (/\ pc = "loop" /\ current = <<>>
         /\ Len(symbols') > Len(symbols) /\ IsMarker(Last(symbols')))
        => (pc' = "failed" /\ current' = current /\ result' = result) ]_vars

----------------------------------------------------------------------------
(* C7: the report get_diagnostics returns holds as many errors as the     *)
(* analyzer's list, and the error at each index has the symbol, message   *)
(* and position of the analyzer's error at that index.                    *)
C7_ErrorsCopiedInOrder ==
    dpc \in {"got", "printed"} =>
        /\ Len(diagnostics.errors) = Len(sema.errors)
        /\ \A i \in 1..Len(sema.errors) :
              /\ diagnostics.errors[i].symbol = sema.errors[i].symbol
              /\ diagnostics.errors[i].msg = sema.errors[i].msg
              /\ diagnostics.errors[i].where = sema.errors[i].where

C7_Witness ==
    /\ dpc = "got"
    /\ Len(sema.errors) = 2
    /\ sema.errors[1].symbol = "f"
    /\ sema.errors[2] = sema.errors[1]
    /\ diagnostics.errors = sema.errors

(* C8: print_diagnostics writes the opener of the symbols section, one    *)
(* record per symbol, the opener of the errors section, one record per    *)
(* error of the report in the report's order, the opener of the scopes    *)
(* section, one record per scope, and the closing braces; a report with   *)
(* nothing in it gives the three openers and the closing braces alone.    *)
C8_ThreeSectionsInOrder ==
    dpc = "printed" =>
        LET ns == Len(diagnostics.symbols)
            ne == Len(diagnostics.errors)
            nm == Cardinality(DOMAIN diagnostics.scope_map)
        IN  /\ Len(o) = ns + ne + nm + 4
            /\ o[1].piece = "{\"symbols\": ["
            /\ \A i \in 1..ns : o[1 + i].piece = "symbol"
            /\ o[ns + 2].piece = "], \"errors\": ["
            /\ \A i \in 1..ne :
                  /\ o[ns + 2 + i].piece = "error"
                  /\ o[ns + 2 + i].symbol = diagnostics.errors[i].symbol
                  /\ o[ns + 2 + i].lineno = diagnostics.errors[i].where.lineno
                  /\ o[ns + 2 + i].colno = diagnostics.errors[i].where.colno
                  /\ o[ns + 2 + i].msg
                        = sanitize_for_json(diagnostics.errors[i].msg)
            /\ o[ns + ne + 3].piece = "], \"scopes\": {"
            /\ \A i \in 1..nm : o[ns + ne + 3 + i].piece = "scope"
            /\ o[ns + ne + nm + 4].piece = "}}"

C8_Witness ==
    /\ dpc = "printed"
    /\ diagnostics.symbols = <<>>
    /\ Len(diagnostics.errors) = 2
    /\ diagnostics.errors[1] # diagnostics.errors[2]
    /\ DOMAIN diagnostics.scope_map = Names
    /\ o[2].piece = "], \"errors\": ["
    /\ o[3].piece = "error"

(* C10: no two symbols of the report are equal on (name, kind, scope,     *)
(* position), and the symbols of the report are exactly the distinct      *)
(* tuples read from the declaration table: equal tuples collapse, tuples  *)
(* that differ in kind, scope or position all stay.                       *)
C10_SymbolsAreTheDistinctTuples ==
    dpc \in {"got", "printed"} =>
        /\ \A i, j \in 1..Len(diagnostics.symbols) :
              diagnostics.symbols[i] = diagnostics.symbols[j] => i = j
        /\ {diagnostics.symbols[i] : i \in 1..Len(diagnostics.symbols)}
              = {read_symbol(sema.declaration_of[k]) :
                    k \in 1..Len(sema.declaration_of)}

C10_Witness ==
    /\ dpc = "got"
    /\ Len(sema.declaration_of) = 3
    /\ sema.declaration_of[1] = sema.declaration_of[3]
    /\ sema.declaration_of[2].identifier = sema.declaration_of[1].identifier
    /\ sema.declaration_of[2].declaration.position
          = sema.declaration_of[1].declaration.position
    /\ Len(diagnostics.symbols) = 2

----------------------------------------------------------------------------
(* C9: sanitize_for_json returns the concatenation of the escapes of the  *)
(* characters of its argument: each of the seven characters as backslash  *)
(* and its letter, every other character as itself; no backslash that a   *)
(* replacement wrote is escaped again.                                     *)
Escape(c) ==
    CASE c = Backslash      -> <<Backslash, Backslash>>
      [] c = DoubleQuote    -> <<Backslash, DoubleQuote>>
      [] c = Backspace      -> <<Backslash, "b">>
      [] c = Formfeed       -> <<Backslash, "f">>
      [] c = Newline        -> <<Backslash, "n">>
      [] c = CarriageReturn -> <<Backslash, "r">>
      [] c = Tab            -> <<Backslash, "t">>
      [] OTHER              -> <<c>>

RECURSIVE EscapeEach(_)
EscapeEach(str) ==
    IF str = <<>> THEN <<>>
    ELSE Escape(Head(str)) \o EscapeEach(Tail(str))

C9_PerCharacterEscapes ==
    jpc = "done" => sanitized = EscapeEach(message)

C9_Witness ==
    /\ jpc = "done"
    /\ message = <<"a", DoubleQuote, "b">>
    /\ sanitized = <<"a", Backslash, DoubleQuote, "b">>

----------------------------------------------------------------------------
(* C13: after a stream whose scope markers are properly nested and that   *)
(* never meets a marker on an empty stack, every entry of the returned    *)
(* map is the range of one matched pair of markers, from the position of  *)
(* the opening marker to the position of its matching closing marker, and *)
(* that pair is the body of a declaration pushed under the entry's name.  *)
C13_EntriesAreOwnBodies ==
    (/\ pc = "returned"
     /\ ProperlyNested(symbols)
     /\ ~Underflows(symbols)) =>
        \A n \in DOMAIN result :
            \E i \in ScopeIndices(symbols) :
                /\ symbols[i].identifier = n
                /\ result[n] = OwnRange(symbols, i)

----------------------------------------------------------------------------
(* C12: what one turn of the loop of make_scope_map changes.  An element  *)
(* that is a declaration of neither a function nor a namespace, or a      *)
(* declaration without identifier, or a compound that is not a scope      *)
(* marker, or of any other kind, leaves the stack of names and the map as *)
(* they were.  A pushing declaration appends exactly its name to the      *)
(* stack and leaves the map as it was.  With a name on top of the stack,  *)
(* an opening marker leaves the stack as it was and every entry of the    *)
(* map other than the one of the top as it was; a closing marker removes  *)
(* exactly the top from the stack, leaves every other entry as it was,    *)
(* and of the entry of the top it sets the end only: the start is the one *)
(* the entry had, or the value-initialized one when operator[] had to     *)
(* create the entry.                                                      *)
C12_Ignored == symbols' = symbols

C12_Recorded == symbols' # symbols

C12_OtherEntriesKept(top) ==
    \A n \in (DOMAIN result \cup DOMAIN result') \ {top} :
        /\ n \in DOMAIN result
        /\ n \in DOMAIN result'
        /\ result'[n] = result[n]

C12_StepEffects ==
    [][ (pc = "loop" /\ consumed' = consumed + 1) =>
          /\ C12_Ignored => (current' = current /\ result' = result)
          /\ (C12_Recorded /\ IsPush(Last(symbols'))) =>
                /\ current' = Append(current, Last(symbols').identifier)
                /\ result' = result
          /\ (C12_Recorded /\ IsOpen(Last(symbols')) /\ current # <<>>) =>
                /\ current' = current
                /\ C12_OtherEntriesKept(Last(current))
                /\ Last(current) \in DOMAIN result'
          /\ (C12_Recorded /\ IsClose(Last(symbols')) /\ current # <<>>) =>
                /\ current' = Front(current)
                /\ C12_OtherEntriesKept(Last(current))
                /\ Last(current) \in DOMAIN result'
                /\ result'[Last(current)].end = Last(symbols').pos
                /\ result'[Last(current)].start =
                      IF Last(current) \in DOMAIN result
                      THEN result[Last(current)].start
                      ELSE DefaultPosition ]_vars

(* every kind of element has been read, with a name on top of the stack *)
(* at each marker, and both names have an entry                         *)
C12_Witness ==
    /\ pc = "loop"
    /\ consumed > Len(symbols)
    /\ ~Underflows(symbols)
    /\ Cardinality(PushIndices(symbols)) >= 2
    /\ OpenIndices(symbols) # {}
    /\ CloseIndices(symbols) # {}
    /\ DOMAIN result = Names
    /\ current # <<>>

----------------------------------------------------------------------------
(* C11: get_diagnostics is a function of the snapshot.  A second call on  *)
(* the snapshot the first call was given ends as the first call did and   *)
(* returns a report with the same set of symbols, the same sequence of    *)
(* errors and the same scope map.                                         *)
C11_SecondCallAgrees ==
    [][ (/\ dpc \in {"first_returned", "first_undefined"}
         /\ dpc' \in {"second_returned", "second_undefined",
                      "second_crashed"})
        => /\ dpc' = (IF dpc = "first_returned" THEN "second_returned"
                                                ELSE "second_undefined")
           /\ diagnostics'.symbols = diagnostics.symbols
           /\ diagnostics'.errors = diagnostics.errors
           /\ diagnostics'.scope_map = diagnostics.scope_map ]_vars

====
